---- MODULE Spec2Model ----
(***************************************************************************)
(* The concurrent fan-out/fan-in benchmark orchestrator of                 *)
(* llm_benchmark_suite.py: run() builds the roster of a mode, resolves and *)
(* launches one asyncio task per roster entry, joins them with             *)
(* asyncio.gather, assembles the _Response, optionally stores it, and      *)
(* returns its rendering.                                                  *)
(*                                                                         *)
(* Representation.  A Python str is a TLA+ string; where the code looks    *)
(* inside a str (replace, in) the operators work on its characters, given  *)
(* by Chars.  A str built by an f-string or by concatenation is the tuple  *)
(* of its parts, e.g. "--api-key=K" is <<"--", "api-key", "=", "K">>.      *)
(* A dict is the sequence of its <<key, value>> items in insertion order.  *)
(* A list is a sequence.  None is the value None (for a str), NoneList     *)
(* (for pass_argv) and NoneResult (for a task's result).                   *)
(***************************************************************************)
EXTENDS Naturals, Integers, Sequences, FiniteSets, TLC

\* Largest roster (after filtering) whose run is explored.
MaxRoster == 3

\* Module constants.
DEFAULT_DISPLAY_LENGTH == 64

DEFAULT_GCS_BUCKET == "thefastest-data"

None == "<None>"

NoneList == << <<None>> >>

NoneResult == [none |-> TRUE]

\* A value not there yet: a call not yet returned, no exception, no result.
Nil == [nil |-> TRUE]

\* ------------------------------------------------------------------ str
\* The characters of the strings whose content the code inspects: the
\* roster's model identifiers, the option names and the filters.
Chars ==
    ""                                                   :> <<>> @@
    "@cf/meta/llama-2-7b-chat-fp16"                      :> <<"@","c","f","/","m","e","t","a","/","l","l","a","m","a","-","2","-","7","b","-","c","h","a","t","-","f","p","1","6">> @@
    "@cf/meta/llama-2-7b-chat-int8"                      :> <<"@","c","f","/","m","e","t","a","/","l","l","a","m","a","-","2","-","7","b","-","c","h","a","t","-","i","n","t","8">> @@
    "accounts/fireworks/models/llama-v2-13b-chat"        :> <<"a","c","c","o","u","n","t","s","/","f","i","r","e","w","o","r","k","s","/","m","o","d","e","l","s","/","l","l","a","m","a","-","v","2","-","1","3","b","-","c","h","a","t">> @@
    "accounts/fireworks/models/llama-v2-70b-chat"        :> <<"a","c","c","o","u","n","t","s","/","f","i","r","e","w","o","r","k","s","/","m","o","d","e","l","s","/","l","l","a","m","a","-","v","2","-","7","0","b","-","c","h","a","t">> @@
    "accounts/fireworks/models/llama-v2-7b-chat"         :> <<"a","c","c","o","u","n","t","s","/","f","i","r","e","w","o","r","k","s","/","m","o","d","e","l","s","/","l","l","a","m","a","-","v","2","-","7","b","-","c","h","a","t">> @@
    "accounts/fireworks/models/llama-v3-70b-instruct"    :> <<"a","c","c","o","u","n","t","s","/","f","i","r","e","w","o","r","k","s","/","m","o","d","e","l","s","/","l","l","a","m","a","-","v","3","-","7","0","b","-","i","n","s","t","r","u","c","t">> @@
    "accounts/fireworks/models/llama-v3-8b-instruct"     :> <<"a","c","c","o","u","n","t","s","/","f","i","r","e","w","o","r","k","s","/","m","o","d","e","l","s","/","l","l","a","m","a","-","v","3","-","8","b","-","i","n","s","t","r","u","c","t">> @@
    "accounts/fireworks/models/mixtral-8x7b-instruct"    :> <<"a","c","c","o","u","n","t","s","/","f","i","r","e","w","o","r","k","s","/","m","o","d","e","l","s","/","m","i","x","t","r","a","l","-","8","x","7","b","-","i","n","s","t","r","u","c","t">> @@
    "claude-2.1"                                         :> <<"c","l","a","u","d","e","-","2",".","1">> @@
    "claude-3-haiku-20240307"                            :> <<"c","l","a","u","d","e","-","3","-","h","a","i","k","u","-","2","0","2","4","0","3","0","7">> @@
    "claude-3-opus-20240229"                             :> <<"c","l","a","u","d","e","-","3","-","o","p","u","s","-","2","0","2","4","0","2","2","9">> @@
    "claude-3-sonnet-20240229"                           :> <<"c","l","a","u","d","e","-","3","-","s","o","n","n","e","t","-","2","0","2","4","0","2","2","9">> @@
    "claude-instant-1.2"                                 :> <<"c","l","a","u","d","e","-","i","n","s","t","a","n","t","-","1",".","2">> @@
    "command-light"                                      :> <<"c","o","m","m","a","n","d","-","l","i","g","h","t">> @@
    "command-r"                                          :> <<"c","o","m","m","a","n","d","-","r">> @@
    "command-r-plus"                                     :> <<"c","o","m","m","a","n","d","-","r","-","p","l","u","s">> @@
    "gemini-1.5-pro-preview-0409"                        :> <<"g","e","m","i","n","i","-","1",".","5","-","p","r","o","-","p","r","e","v","i","e","w","-","0","4","0","9">> @@
    "gemini-pro"                                         :> <<"g","e","m","i","n","i","-","p","r","o">> @@
    "gemini-pro-vision"                                  :> <<"g","e","m","i","n","i","-","p","r","o","-","v","i","s","i","o","n">> @@
    "gpt-3.5-turbo"                                      :> <<"g","p","t","-","3",".","5","-","t","u","r","b","o">> @@
    "gpt-3.5-turbo-0125"                                 :> <<"g","p","t","-","3",".","5","-","t","u","r","b","o","-","0","1","2","5">> @@
    "gpt-3.5-turbo-1106"                                 :> <<"g","p","t","-","3",".","5","-","t","u","r","b","o","-","1","1","0","6">> @@
    "gpt-4-0125-preview"                                 :> <<"g","p","t","-","4","-","0","1","2","5","-","p","r","e","v","i","e","w">> @@
    "gpt-4-1106-preview"                                 :> <<"g","p","t","-","4","-","1","1","0","6","-","p","r","e","v","i","e","w">> @@
    "gpt-4-turbo"                                        :> <<"g","p","t","-","4","-","t","u","r","b","o">> @@
    "gpt-4-vision-preview"                               :> <<"g","p","t","-","4","-","v","i","s","i","o","n","-","p","r","e","v","i","e","w">> @@
    "llama-2-13b-chat-fp16"                              :> <<"l","l","a","m","a","-","2","-","1","3","b","-","c","h","a","t","-","f","p","1","6">> @@
    "llama-2-70b-chat-fp16"                              :> <<"l","l","a","m","a","-","2","-","7","0","b","-","c","h","a","t","-","f","p","1","6">> @@
    "llama-3-70b-instruct"                               :> <<"l","l","a","m","a","-","3","-","7","0","b","-","i","n","s","t","r","u","c","t">> @@
    "llama-3-8b-instruct"                                :> <<"l","l","a","m","a","-","3","-","8","b","-","i","n","s","t","r","u","c","t">> @@
    "llama2-70b-4096"                                    :> <<"l","l","a","m","a","2","-","7","0","b","-","4","0","9","6">> @@
    "llama3-70b-8192"                                    :> <<"l","l","a","m","a","3","-","7","0","b","-","8","1","9","2">> @@
    "llama3-8b-8192"                                     :> <<"l","l","a","m","a","3","-","8","b","-","8","1","9","2">> @@
    "meta-llama/Llama-2-13b-chat-hf"                     :> <<"m","e","t","a","-","l","l","a","m","a","/","L","l","a","m","a","-","2","-","1","3","b","-","c","h","a","t","-","h","f">> @@
    "meta-llama/Llama-2-70b-chat-hf"                     :> <<"m","e","t","a","-","l","l","a","m","a","/","L","l","a","m","a","-","2","-","7","0","b","-","c","h","a","t","-","h","f">> @@
    "meta-llama/Llama-2-7b-chat-hf"                      :> <<"m","e","t","a","-","l","l","a","m","a","/","L","l","a","m","a","-","2","-","7","b","-","c","h","a","t","-","h","f">> @@
    "meta-llama/Llama-3-70b-chat-hf"                     :> <<"m","e","t","a","-","l","l","a","m","a","/","L","l","a","m","a","-","3","-","7","0","b","-","c","h","a","t","-","h","f">> @@
    "meta-llama/Llama-3-8b-chat-hf"                      :> <<"m","e","t","a","-","l","l","a","m","a","/","L","l","a","m","a","-","3","-","8","b","-","c","h","a","t","-","h","f">> @@
    "mistralai/Mixtral-8x7B-Instruct-v0.1"               :> <<"m","i","s","t","r","a","l","a","i","/","M","i","x","t","r","a","l","-","8","x","7","B","-","I","n","s","t","r","u","c","t","-","v","0",".","1">> @@
    "mixtral-8x7b-32768"                                 :> <<"m","i","x","t","r","a","l","-","8","x","7","b","-","3","2","7","6","8">> @@
    "mixtral-8x7b-instruct"                              :> <<"m","i","x","t","r","a","l","-","8","x","7","b","-","i","n","s","t","r","u","c","t">> @@
    "sonar-medium-chat"                                  :> <<"s","o","n","a","r","-","m","e","d","i","u","m","-","c","h","a","t">> @@
    "togethercomputer/llama-2-13b-chat"                  :> <<"t","o","g","e","t","h","e","r","c","o","m","p","u","t","e","r","/","l","l","a","m","a","-","2","-","1","3","b","-","c","h","a","t">> @@
    "togethercomputer/llama-2-70b-chat"                  :> <<"t","o","g","e","t","h","e","r","c","o","m","p","u","t","e","r","/","l","l","a","m","a","-","2","-","7","0","b","-","c","h","a","t">> @@
    "togethercomputer/llama-2-7b-chat"                   :> <<"t","o","g","e","t","h","e","r","c","o","m","p","u","t","e","r","/","l","l","a","m","a","-","2","-","7","b","-","c","h","a","t">> @@
    "model"                                              :> <<"m","o","d","e","l">> @@
    "api_key"                                            :> <<"a","p","i","_","k","e","y">> @@
    "base_url"                                           :> <<"b","a","s","e","_","u","r","l">> @@
    "format"                                             :> <<"f","o","r","m","a","t">> @@
    "max_tokens"                                         :> <<"m","a","x","_","t","o","k","e","n","s">> @@
    "api-key"                                            :> <<"a","p","i","-","k","e","y">> @@
    "base-url"                                           :> <<"b","a","s","e","-","u","r","l">> @@
    "max-tokens"                                         :> <<"m","a","x","-","t","o","k","e","n","s">> @@
    "gemini"                                             :> <<"g","e","m","i","n","i">> @@
    "gpt-4-0125"                                         :> <<"g","p","t","-","4","-","0","1","2","5">> @@
    "GPT"                                                :> <<"G","P","T">> @@
    "gpt-3.5"                                            :> <<"g","p","t","-","3",".","5">> @@
    "gpt"                                                :> <<"g","p","t">> @@
    "claude"                                             :> <<"c","l","a","u","d","e">> @@
    "llama"                                              :> <<"l","l","a","m","a">> @@
    "Llama"                                              :> <<"L","l","a","m","a">> @@
    "70b"                                                :> <<"7","0","b">> @@
    "turbo"                                              :> <<"t","u","r","b","o">> @@
    "vision"                                             :> <<"v","i","s","i","o","n">> @@
    "pro"                                                :> <<"p","r","o">> @@
    "-"                                                  :> <<"-">> @@
    "Response"                                           :> <<"R","e","s","p","o","n","s","e">> @@
    ":--"                                                :> <<":","-","-">>

\* The str made of the characters cs.
FromChars(cs) == CHOOSE s \in DOMAIN Chars : Chars[s] = cs

\* s.replace(old, new), old and new one character each.
str_replace(s, old, new) ==
    FromChars([i \in 1..Len(Chars[s]) |->
                  IF Chars[s][i] = old THEN new ELSE Chars[s][i]])

\* sub in s
str_in(sub, s) ==
    \E i \in 0..(Len(Chars[s]) - Len(Chars[sub])) :
        SubSeq(Chars[s], i + 1, i + Len(Chars[sub])) = Chars[sub]

\* f"{v}": None is written "None".
str_format(v) == IF v = None THEN "None" ELSE v

\* sep.join(parts): the parts with sep between them.
str_join(sep, parts) ==
    [i \in 1..(IF Len(parts) = 0 THEN 0 ELSE 2 * Len(parts) - 1) |->
        IF i % 2 = 1 THEN parts[(i + 1) \div 2] ELSE sep]

\* ----------------------------------------------------------------- dict
dict_keys(d) == {d[i][1] : i \in 1..Len(d)}

dict_get(d, k) == d[CHOOSE i \in 1..Len(d) : d[i][1] = k][2]

\* d[k] = v: a key already present keeps its position.
dict_set(d, k, v) ==
    IF k \in dict_keys(d)
    THEN [i \in 1..Len(d) |-> IF d[i][1] = k THEN <<k, v>> ELSE d[i]]
    ELSE Append(d, <<k, v>>)

\* d.update(items), also the dict display {**items}: items in order.
RECURSIVE dict_update(_, _)
dict_update(d, items) ==
    IF items = <<>> THEN d
    ELSE dict_update(dict_set(d, Head(items)[1], Head(items)[2]), Tail(items))

\* [f"--{k.replace('_', '-')}={v}" for k, v in d.items()]
_dict_to_argv(d) ==
    [i \in 1..Len(d) |->
        <<"--", str_replace(d[i][1], "_", "-"), "=", str_format(d[i][2])>>]

\* --------------------------------------------------------------- state
VARIABLES
    caller,          \* who calls run(): "main" (asyncio.run(main(...))) or "webapp"
    call_kwargs,     \* the keyword arguments of the call: run(**call_kwargs)
    mode, format, display_length, filter, store, pass_argv, kwargs,  \* run()'s arguments
    FLY_REGION,      \* os.environ's FLY_REGION, None when it is not set
    heap,            \* the list objects: heap[id] is what list id holds now
    handed,          \* handed[i]: the id of the list given to the i-th Runner call
    now,             \* datetime.datetime.now()
    pc,              \* where run() is
    time_str, region, argv, models, tasks, response,   \* run()'s locals
    next_m,          \* index of the next m of the for loop
    gather,          \* the future asyncio.gather returned
    overtaken,       \* whether a task settled before one earlier in the roster
    uploads,         \* the calls storage.upload received
    returned,        \* the value run() returned
    raised,          \* the exception run() raised
    loop,            \* the event loop of asyncio.run: "running" or "closed"
    stdout           \* what print() wrote

params == <<caller, call_kwargs, mode, format, display_length, filter, store,
           pass_argv, kwargs>>

env == <<FLY_REGION, now>>
lists == <<heap, handed>>

locals == <<time_str, region, argv, models, tasks, response, next_m>>

vars == <<params, env, lists, pc, locals, gather, overtaken, uploads, returned, raised, loop, stdout>>

\* The credentials of the process environment: three providers' keys are
\* set, the others are not.
environ ==
    [n \in {"GROQ_API_KEY", "OCTOML_API_KEY", "PERPLEXITY_API_KEY"} |->
        "secret"]

\* os.getenv(name) of a credential
Getenv(name) == IF name \in DOMAIN environ THEN environ[name] ELSE None

\* os.getenv(name, default), given the variable's value
os_getenv(value, default) == IF value = None THEN default ELSE value

\* ----------------------------------------------------------------- _Llm
\* _Llm.__init__(model, **kwargs)
_Llm(model, kw) ==
    [pass_argv |-> <<>>,
     args |-> dict_update(<<>>, << <<"model", model>> >> \o kw
                                 \o << <<"format", "none">> >>)]

_AnyscaleLlm(model) ==
    _Llm(model, << <<"api_key", Getenv("ANYSCALE_API_KEY")>>,
                   <<"base_url", "https://api.endpoints.anyscale.com/v1">> >>)

_FireworksLlm(model) ==
    _Llm(model, << <<"api_key", Getenv("FIREWORKS_API_KEY")>>,
                   <<"base_url", "https://api.fireworks.ai/inference/v1">> >>)

_GroqLlm(model) ==
    _Llm(model, << <<"api_key", Getenv("GROQ_API_KEY")>>,
                   <<"base_url", "https://api.groq.com/openai/v1">> >>)

_OctoLlm(model) ==
    _Llm(model, << <<"api_key", Getenv("OCTOML_API_KEY")>>,
                   <<"base_url", "https://text.octoai.run/v1">> >>)

_PerplexityLlm(model) ==
    _Llm(model, << <<"api_key", Getenv("PERPLEXITY_API_KEY")>>,
                   <<"base_url", "https://api.perplexity.ai">> >>)

_TogetherLlm(model) ==
    _Llm(model, << <<"api_key", Getenv("TOGETHER_API_KEY")>>,
                   <<"base_url", "https://api.together.xyz/v1">> >>)

\* _Llm.apply(pass_argv, **kwargs): updates self and returns it.
\* Mutant of _Llm_apply: the entry is left as it was built.
_Llm_apply_untouched(self, p_argv, kw) == self

\* _Llm.apply: the entry itself is updated; apply returns self.
_Llm_apply(self, p_argv, kw) ==
    [pass_argv |-> p_argv, args |-> dict_update(self.args, kw)]

\* Mutant of full_argv: the pass-through tokens put first.
full_argv_pass_first(self) == self.pass_argv \o _dict_to_argv(self.args)

\* The argument list _Llm.run hands to llm_benchmark.run.
full_argv(self) == _dict_to_argv(self.args) \o self.pass_argv

\* --------------------------------------------------------------- roster
\* The roster of the mode.
_text_models ==
    <<
       _Llm("gpt-4-turbo", <<>>),
       _Llm("gpt-4-0125-preview", <<>>),
       _Llm("gpt-4-0125-preview", <<<<"api_key", Getenv("AZURE_SCENTRALUS_OPENAI_API_KEY")>>, <<"base_url", "https://fixie-scentralus.openai.azure.com">>>>),
       _Llm("gpt-4-1106-preview", <<>>),
       _Llm("gpt-4-1106-preview", <<<<"base_url", "https://fixie-westus.openai.azure.com">>>>),
       _Llm("gpt-4-1106-preview", <<<<"api_key", Getenv("AZURE_EASTUS2_OPENAI_API_KEY")>>, <<"base_url", "https://fixie-openai-sub-with-gpt4.openai.azure.com">>>>),
       _Llm("gpt-4-1106-preview", <<<<"api_key", Getenv("AZURE_FRCENTRAL_OPENAI_API_KEY")>>, <<"base_url", "https://fixie-frcentral.openai.azure.com">>>>),
       _Llm("gpt-4-1106-preview", <<<<"api_key", Getenv("AZURE_SECENTRAL_OPENAI_API_KEY")>>, <<"base_url", "https://fixie-secentral.openai.azure.com">>>>),
       _Llm("gpt-4-1106-preview", <<<<"api_key", Getenv("AZURE_UKSOUTH_OPENAI_API_KEY")>>, <<"base_url", "https://fixie-uksouth.openai.azure.com">>>>),
       _Llm("gpt-3.5-turbo-0125", <<>>),
       _Llm("gpt-3.5-turbo-1106", <<>>),
       _Llm("gpt-3.5-turbo-1106", <<<<"base_url", "https://fixie-westus.openai.azure.com">>>>),
       _Llm("gpt-3.5-turbo", <<<<"api_key", Getenv("AZURE_EASTUS2_OPENAI_API_KEY")>>, <<"base_url", "https://fixie-openai-sub-with-gpt4.openai.azure.com">>>>),
       _Llm("claude-3-opus-20240229", <<>>),
       _Llm("claude-3-sonnet-20240229", <<>>),
       _Llm("claude-3-haiku-20240307", <<>>),
       _Llm("claude-2.1", <<>>),
       _Llm("claude-instant-1.2", <<>>),
       _Llm("command-r-plus", <<>>),
       _Llm("command-r", <<>>),
       _Llm("command-light", <<>>),
       _Llm("gemini-pro", <<>>),
       _Llm("gemini-1.5-pro-preview-0409", <<>>),
       _Llm("", <<<<"api_key", Getenv("AZURE_EASTUS2_MISTRAL_API_KEY")>>, <<"base_url", "https://fixie-mistral-serverless.eastus2.inference.ai.azure.com/v1">>>>),
       _AnyscaleLlm("mistralai/Mixtral-8x7B-Instruct-v0.1"),
       _FireworksLlm("accounts/fireworks/models/mixtral-8x7b-instruct"),
       _GroqLlm("mixtral-8x7b-32768"),
       _OctoLlm("mixtral-8x7b-instruct"),
       _PerplexityLlm("mixtral-8x7b-instruct"),
       _PerplexityLlm("sonar-medium-chat"),
       _AnyscaleLlm("meta-llama/Llama-3-70b-chat-hf"),
       _FireworksLlm("accounts/fireworks/models/llama-v3-70b-instruct"),
       _GroqLlm("llama3-70b-8192"),
       _PerplexityLlm("llama-3-70b-instruct"),
       _TogetherLlm("meta-llama/Llama-3-70b-chat-hf"),
       _Llm("", <<<<"api_key", Getenv("AZURE_WESTUS3_LLAMA2_API_KEY")>>, <<"base_url", "https://fixie-llama-2-70b-serverless.westus3.inference.ai.azure.com/v1">>>>),
       _Llm("", <<<<"api_key", Getenv("AZURE_EASTUS2_LLAMA2_API_KEY")>>, <<"base_url", "https://fixie-llama-2-70b-serverless.eastus2.inference.ai.azure.com/v1">>>>),
       _AnyscaleLlm("meta-llama/Llama-2-70b-chat-hf"),
       _FireworksLlm("accounts/fireworks/models/llama-v2-70b-chat"),
       _GroqLlm("llama2-70b-4096"),
       _OctoLlm("llama-2-70b-chat-fp16"),
       _TogetherLlm("togethercomputer/llama-2-70b-chat"),
       _FireworksLlm("accounts/fireworks/models/llama-v2-13b-chat"),
       _AnyscaleLlm("meta-llama/Llama-2-13b-chat-hf"),
       _TogetherLlm("togethercomputer/llama-2-13b-chat"),
       _OctoLlm("llama-2-13b-chat-fp16"),
       _AnyscaleLlm("meta-llama/Llama-3-8b-chat-hf"),
       _FireworksLlm("accounts/fireworks/models/llama-v3-8b-instruct"),
       _GroqLlm("llama3-8b-8192"),
       _PerplexityLlm("llama-3-8b-instruct"),
       _TogetherLlm("meta-llama/Llama-3-8b-chat-hf"),
       _AnyscaleLlm("meta-llama/Llama-2-7b-chat-hf"),
       _FireworksLlm("accounts/fireworks/models/llama-v2-7b-chat"),
       _TogetherLlm("togethercomputer/llama-2-7b-chat"),
       _Llm("@cf/meta/llama-2-7b-chat-fp16", <<>>),
       _Llm("@cf/meta/llama-2-7b-chat-int8", <<>>)
    >>

\* The roster of the mode.
_image_models ==
    <<
       _Llm("gpt-4-turbo", <<>>),
       _Llm("gpt-4-vision-preview", <<<<"base_url", "https://fixie-westus.openai.azure.com">>>>),
       _Llm("claude-3-opus-20240229", <<>>),
       _Llm("claude-3-sonnet-20240229", <<>>),
       _Llm("gemini-pro-vision", <<>>),
       _Llm("gemini-1.5-pro-preview-0409", <<>>)
    >>

\* The roster of the mode.
_av_models ==
    <<
       _Llm("gemini-1.5-pro-preview-0409", <<>>)
    >>

mode_map ==
    [text |-> _text_models, image |-> _image_models,
     audio |-> _av_models, video |-> _av_models]

\* _get_models raises ValueError for a mode not in mode_map.
UnknownMode(m) == m \notin DOMAIN mode_map

\* s.startswith(prefix)
str_startswith(s, prefix) ==
    /\ Len(Chars[prefix]) <= Len(Chars[s])
    /\ SubSeq(Chars[s], 1, Len(Chars[prefix])) = Chars[prefix]

\* Mutant of _get_models: the filter tested as a prefix of the model.
_get_models_prefix(m, f) ==
    SelectSeq(mode_map[m],
              LAMBDA x : (f = None \/ f = "")
                            \/ str_startswith(dict_get(x.args, "model"), f))

\* _get_models(mode, filter), for a mode in mode_map.
_get_models(m, f) ==
    SelectSeq(mode_map[m],
              LAMBDA x : (f = None \/ f = "") \/ str_in(f, dict_get(x.args, "model")))

\* ------------------------------------------------------- the Runner
\* llm_benchmark.run(argv) ends in one of three ways: it returns a result
\* dict, it returns None, or it raises.
RunnerOutcomes == {"result", "none", "raise"}

\* The result dict of a Runner call: its model is the --model the call got.
BenchResult(a) ==
    [model |-> a[1][4], ttr |-> 10, ttft |-> 20, tps |-> 10000,
     num_tokens |-> 50, total_time |-> 125,
     output |-> <<" ", "l", "i", "n", "e", "1", "\n", "l", "i", "n", "e", "2", "\n">>]

RunnerError(i) == [type |-> "RunnerError", task |-> i]

\* asyncio.create_task(llm_benchmark.run(full_argv)): scheduled, not yet run.
create_task(a) ==
    [status |-> "scheduled", argv |-> a, result |-> Nil, exception |-> Nil]

\* Task.done()
task_done(t) == t.status \in {"done", "failed", "cancelled"}

\* --------------------------------------------------- _format_response
Min(a, b) == IF a < b THEN a ELSE b

\* format(s, f"{fill}<{w}.{w}"): s cut to w characters, then filled to w.
format_str(cs, fill, w) ==
    LET cut == SubSeq(cs, 1, Min(Len(cs), w))
    IN  cut \o [i \in 1..(w - Len(cut)) |-> fill]

\* output.replace("\n", "\\n")
RECURSIVE replace_newlines(_)
replace_newlines(cs) ==
    IF cs = <<>> THEN <<>>
    ELSE (IF Head(cs) = "\n" THEN <<"\\", "n">> ELSE <<Head(cs)>>)
             \o replace_newlines(Tail(cs))

Whitespace == {" ", "\t", "\n", "\r"}

\* s.strip()
str_strip(cs) ==
    LET keep == {i \in 1..Len(cs) : cs[i] \notin Whitespace}
    IN  IF keep = {} THEN <<>>
        ELSE SubSeq(cs, CHOOSE i \in keep : \A j \in keep : i <= j,
                        CHOOSE i \in keep : \A j \in keep : i >= j)

\* Mutant of format_row: the output is cut to dlen first and escaped last.
format_row_escape_last(r, dlen) ==
    [model |-> <<"42", r.model>>,
     ttr |-> <<"4.2f", r.ttr>>, ttft |-> <<"4.2f", r.ttft>>,
     tps |-> <<"3.0f", r.tps>>, num_tokens |-> <<"3", r.num_tokens>>,
     total_time |-> <<"5.2f", r.total_time>>,
     output |-> replace_newlines(format_str(str_strip(r.output), " ", dlen))]

\* One row of the table: the numeric cells are kept as <<format spec, value>>.
format_row(r, dlen) ==
    [model |-> <<"42", r.model>>,
     ttr |-> <<"4.2f", r.ttr>>, ttft |-> <<"4.2f", r.ttft>>,
     tps |-> <<"3.0f", r.tps>>, num_tokens |-> <<"3", r.num_tokens>>,
     total_time |-> <<"5.2f", r.total_time>>,
     output |-> format_str(str_strip(replace_newlines(r.output)), " ", dlen)]

\* _format_response(response, format, dlen): (text, content type).
_format_response(resp, fmt, dlen) ==
    IF fmt = "json"
    THEN [text |-> [json |-> resp], content_type |-> "application/json"]
    ELSE [text |->
             [header |-> <<format_str(Chars["Response"], " ", dlen),
                           format_str(Chars[":--"], "-", dlen)>>,
              rows |-> [i \in 1..Len(resp.results) |->
                           format_row(resp.results[i], dlen)],
              trailer |-> [time |-> resp.time, region |-> resp.region,
                           cmd |-> resp.cmd]],
          content_type |-> "text/markdown"]

\* ------------------------------------------------------------ run()
\* x or []
or_empty(x) == IF x = NoneList THEN <<>> ELSE x

\* datetime.datetime.now().isoformat()
isoformat(t) == <<t.date, "T", t.time>>

\* s.split("T")[0]: the parts of s before the first "T".
split_T_0(s) ==
    IF \E i \in 1..Len(s) : s[i] = "T"
    THEN SubSeq(s, 1, (CHOOSE i \in 1..Len(s) :
                          s[i] = "T" /\ \A j \in 1..(i - 1) : s[j] # "T") - 1)
    ELSE s

\* Mutant of collect_results: the tasks walked from the last to the first.
collect_results_reversed(ts) ==
    LET present == SelectSeq(ts, LAMBDA t : t.result # NoneResult)
    IN  [i \in 1..Len(present) |-> present[Len(present) + 1 - i].result]

\* [t.result() for t in tasks if t.result() is not None]
collect_results(ts) ==
    LET present == SelectSeq(ts, LAMBDA t : t.result # NoneResult)
    IN  [i \in 1..Len(present) |-> present[i].result]

\* The future asyncio.gather(*tasks) returns: done at once without tasks.
asyncio_gather(ts) ==
    IF ts = <<>> THEN [state |-> "result", exception |-> Nil]
    ELSE [state |-> "pending", exception |-> Nil]

\* gather's callback when a child settles: the first exception ends the
\* gather at once; otherwise it ends when the last child is done.
gather_done_callback(g, ts, i) ==
    IF g.state # "pending" THEN g
    ELSE IF ts[i].status = "failed"
         THEN [state |-> "exception", exception |-> ts[i].exception]
    ELSE IF \A j \in 1..Len(ts) : task_done(ts[j])
         THEN [state |-> "result", exception |-> Nil]
    ELSE g

\* Mutant of store_path: the region and the date are read again when the
\* report is stored.
store_path_reread ==
    <<os_getenv(FLY_REGION, "local"), "/", mode, "/">>
        \o split_T_0(isoformat(now)) \o <<".json">>

\* The key the report is stored under.
store_path == <<region, "/", mode, "/">> \o split_T_0(time_str) \o <<".json">>

Modes == {"text", "image", "audio", "video", "speech"}

Filters == {None, "", "gemini", "mixtral-8x7b-instruct", "GPT", "gpt-3.5"}

\* The shared options a webapp call passes as keyword arguments.
KwargsChoices ==
    { <<>>,
      << <<"max_tokens", "5">>, <<"api_key", "shared-key">>,
         <<"base_url", "https://shared.example/v1">> >> }

\* The keyword arguments of a webapp call: the shared options, with or
\* without a format.
CallKwargs ==
    KwargsChoices \cup {<< <<"format", "json">> >> \o kw : kw \in KwargsChoices}

\* The names run() binds to parameters of its own (lines 311-316).
run_parameters ==
    {"mode", "format", "display_length", "filter", "store", "pass_argv"}

\* Mutant of run_kwargs: every keyword argument is taken as a shared option.
run_kwargs_unbound(given) == given

\* **kwargs of run(): the keyword arguments that name no parameter.
run_kwargs(given) == SelectSeq(given, LAMBDA kv : kv[1] \notin run_parameters)

\* The pass-through tokens: the flags argparse did not know.
PassArgv == << <<"--temperature=0.5">>, <<"--api-key=cli-key">> >>

\* The calls of run() explored.  main() takes mode from argparse's choices
\* and passes the unknown flags as a list and no keyword arguments; the
\* webapp passes keyword arguments and may leave pass_argv out.
Init ==
    /\ caller \in {"main", "webapp"}
    /\ mode \in Modes
    /\ format \in {"text", "json"}
    /\ display_length \in {DEFAULT_DISPLAY_LENGTH, 10}
    /\ format = "json" => display_length = DEFAULT_DISPLAY_LENGTH
    /\ filter \in Filters
    /\ store \in BOOLEAN
    /\ pass_argv \in {NoneList, <<>>, PassArgv}
    /\ call_kwargs \in CallKwargs
    /\ kwargs = run_kwargs(call_kwargs)
    /\ "format" \in dict_keys(call_kwargs) =>
          format = dict_get(call_kwargs, "format")
    /\ FLY_REGION \in {None, "iad"}
    /\ caller = "main" =>
          /\ ~UnknownMode(mode)
          /\ pass_argv # NoneList
          /\ call_kwargs = <<>>
    /\ caller = "webapp" =>
          /\ pass_argv # <<>>
          /\ kwargs = <<>> => pass_argv = NoneList
    /\ IF UnknownMode(mode) THEN TRUE
       ELSE Len(_get_models(mode, filter)) <= MaxRoster
    /\ now = [date |-> "2024-04-20", time |-> "23:59:58.000001"]
    /\ heap = IF pass_argv = NoneList THEN <<>> ELSE <<pass_argv>>
    /\ handed = <<>>
    /\ pc = "call"
    /\ time_str = <<>> /\ region = None /\ argv = <<>> /\ models = <<>>
    /\ tasks = <<>> /\ response = Nil /\ next_m = 0
    /\ gather = Nil
    /\ overtaken = FALSE
    /\ uploads = <<>>
    /\ returned = Nil
    /\ raised = Nil
    /\ loop = "running"
    /\ stdout = <<>>

\* Mutant of run_enter: an unknown mode gives an empty roster, no error.
run_enter_default_roster ==
    /\ pc = "call"
    /\ time_str' = isoformat(now)
    /\ region' = os_getenv(FLY_REGION, "local")
    /\ argv' = _dict_to_argv(kwargs) \o or_empty(pass_argv)
    /\ models' = IF UnknownMode(mode) THEN <<>> ELSE _get_models(mode, filter)
    /\ tasks' = <<>>
    /\ next_m' = 1
    /\ pc' = "dispatch"
    /\ UNCHANGED <<params, env, lists, response, gather, overtaken, uploads, returned,
                   raised, loop, stdout>>

\* run(), lines 326-330: capture the time and the region, build the roster.
run_enter ==
    /\ pc = "call"
    /\ time_str' = isoformat(now)
    /\ region' = os_getenv(FLY_REGION, "local")
    /\ argv' = _dict_to_argv(kwargs) \o or_empty(pass_argv)
    /\ IF UnknownMode(mode)
       THEN /\ raised' = [type |-> "ValueError", msg |-> <<"Unknown mode ", mode>>]
            /\ pc' = "raised"
            /\ UNCHANGED <<models, tasks, next_m>>
       ELSE /\ models' = _get_models(mode, filter)
            /\ tasks' = <<>>
            /\ next_m' = 1
            /\ pc' = "dispatch"
            /\ UNCHANGED raised
    /\ UNCHANGED <<params, env, lists, response, gather, overtaken, uploads, returned,
                   loop, stdout>>

\* A new list object holding cs: what a list display or a + b creates.
list_new(h, cs) == Append(h, cs)

\* Mutant of run_dispatch: the entry is run twice in its turn of the loop.
run_dispatch_twice ==
    /\ pc = "dispatch"
    /\ next_m <= Len(models)
    /\ LET m == _Llm_apply(models[next_m], or_empty(pass_argv), kwargs)
       IN  /\ models' = [models EXCEPT ![next_m] = m]
           /\ heap' = list_new(list_new(heap, full_argv(m)), full_argv(m))
           /\ handed' = Append(Append(handed, Len(heap) + 1), Len(heap) + 2)
           /\ tasks' = Append(Append(tasks, create_task(full_argv(m))),
                              create_task(full_argv(m)))
    /\ next_m' = next_m + 1
    /\ UNCHANGED <<params, env, pc, time_str, region, argv, response, gather,
                   overtaken, uploads, returned, raised, loop, stdout>>

\* Mutant of run_dispatch: a pass-through list that is not empty is extended
\* in place with the entry's flags and is itself given to the Runner call.
run_dispatch_extend_in_place ==
    /\ pc = "dispatch"
    /\ next_m <= Len(models)
    /\ LET m == _Llm_apply(models[next_m], or_empty(pass_argv), kwargs)
       IN  /\ models' = [models EXCEPT ![next_m] = m]
           /\ IF or_empty(pass_argv) # <<>>
              THEN /\ heap' = [heap EXCEPT ![1] = _dict_to_argv(m.args) \o @]
                   /\ handed' = Append(handed, 1)
                   /\ tasks' = Append(tasks, create_task(heap'[1]))
              ELSE /\ heap' = list_new(heap, full_argv(m))
                   /\ handed' = Append(handed, Len(heap'))
                   /\ tasks' = Append(tasks, create_task(heap'[Len(heap')]))
    /\ next_m' = next_m + 1
    /\ UNCHANGED <<params, env, pc, time_str, region, argv, response, gather,
                   overtaken, uploads, returned, raised, loop, stdout>>

\* One turn of the for loop: m.apply(...); tasks.append(m.run()).  The
\* concatenation of line 72 makes a new list, which the Runner call gets.
run_dispatch ==
    /\ pc = "dispatch"
    /\ next_m <= Len(models)
    /\ LET m == _Llm_apply(models[next_m], or_empty(pass_argv), kwargs)
       IN  /\ models' = [models EXCEPT ![next_m] = m]
           /\ heap' = list_new(heap, full_argv(m))
           /\ handed' = Append(handed, Len(heap'))
           /\ tasks' = Append(tasks, create_task(heap'[Len(heap')]))
    /\ next_m' = next_m + 1
    /\ UNCHANGED <<params, env, pc, time_str, region, argv, response, gather,
                   overtaken, uploads, returned, raised, loop, stdout>>

\* Mutant of run_gather: run() waits as soon as one task is launched.
run_gather_in_loop ==
    /\ pc = "dispatch"
    /\ tasks # <<>> \/ next_m > Len(models)
    /\ gather' = asyncio_gather(tasks)
    /\ pc' = "join"
    /\ UNCHANGED <<params, env, lists, locals, overtaken, uploads, returned, raised,
                   loop, stdout>>

\* await asyncio.gather(*tasks): run() is suspended on the gather.
run_gather ==
    /\ pc = "dispatch"
    /\ next_m > Len(models)
    /\ gather' = asyncio_gather(tasks)
    /\ pc' = "join"
    /\ UNCHANGED <<params, env, lists, locals, overtaken, uploads, returned, raised,
                   loop, stdout>>

\* The event loop runs a scheduled task up to its first suspension inside
\* llm_benchmark.run.  Tasks run only while run() is suspended or over.
task_start(i) ==
    /\ loop = "running"
    /\ pc \notin {"call", "dispatch"}
    /\ tasks[i].status = "scheduled"
    /\ tasks' = [tasks EXCEPT ![i].status = "running"]
    /\ UNCHANGED <<params, env, lists, pc, time_str, region, argv, models, response,
                   next_m, gather, overtaken, uploads, returned, raised, loop,
                   stdout>>

\* Task t (the i-th), settled the way its Runner call ended.
settle(t, i, outcome) ==
    CASE outcome = "result" ->
            [t EXCEPT !.status = "done", !.result = BenchResult(t.argv)]
      [] outcome = "none" ->
            [t EXCEPT !.status = "done", !.result = NoneResult]
      [] outcome = "raise" ->
            [t EXCEPT !.status = "failed", !.exception = RunnerError(i)]

\* llm_benchmark.run of task i ends; the gather is told.
task_settle(i, outcome) ==
    /\ loop = "running"
    /\ tasks[i].status = "running"
    /\ tasks' = [tasks EXCEPT ![i] = settle(tasks[i], i, outcome)]
    /\ gather' = gather_done_callback(gather, tasks', i)
    /\ overtaken' = (overtaken \/ \E j \in 1..(i - 1) : ~task_done(tasks[j]))
    /\ UNCHANGED <<params, env, lists, pc, time_str, region, argv, models, response,
                   next_m, uploads, returned, raised, loop, stdout>>

\* await storage.upload(gcp_bucket, key, text, content_type=content_type)
storage_upload(bucket, key, text, content_type) ==
    [bucket |-> bucket, key |-> key, text |-> text, content_type |-> content_type]

\* run(), lines 334-341, resumed by the gather: the gather's exception is
\* raised out of run(); otherwise the report is assembled and, with store,
\* its JSON form is handed to _store_response, else its rendering returned.
run_join ==
    /\ pc = "join"
    /\ gather.state # "pending"
    /\ IF gather.state = "exception"
       THEN /\ raised' = gather.exception
            /\ pc' = "raised"
            /\ UNCHANGED <<response, uploads, returned, stdout>>
       ELSE LET resp == [time |-> time_str, region |-> region,
                         cmd |-> str_join(" ", argv),
                         results |-> collect_results(tasks)]
                js == _format_response(resp, "json", display_length)
            IN  /\ response' = resp
                /\ UNCHANGED raised
                /\ IF store
                   THEN /\ stdout' = Append(stdout,
                               <<"Storing results in ", DEFAULT_GCS_BUCKET, "/">>
                                   \o store_path)
                        /\ uploads' = Append(uploads,
                               storage_upload(DEFAULT_GCS_BUCKET, store_path,
                                              js.text, js.content_type))
                        /\ pc' = "storing"
                        /\ UNCHANGED returned
                   ELSE /\ returned' = _format_response(resp, format, display_length)
                        /\ pc' = "returned"
                        /\ UNCHANGED <<uploads, stdout>>
    /\ UNCHANGED <<params, env, lists, time_str, region, argv, models, tasks, next_m,
                   gather, overtaken, loop>>

\* The upload ends: run() returns the rendering, or the upload's exception
\* is raised out of _store_response and run().
run_stored(ok) ==
    /\ pc = "storing"
    /\ IF ok
       THEN /\ returned' = _format_response(response, format, display_length)
            /\ pc' = "returned"
            /\ UNCHANGED raised
       ELSE /\ raised' = [type |-> "UploadError"]
            /\ pc' = "raised"
            /\ UNCHANGED returned
    /\ UNCHANGED <<params, env, lists, locals, gather, overtaken, uploads, loop, stdout>>

\* Task.cancel() on a task that is not done.
task_cancel(t) ==
    IF task_done(t) THEN t ELSE [t EXCEPT !.status = "cancelled"]

\* asyncio.run(main(args, unk_args)): main prints what run() returned, or
\* run()'s exception leaves main; asyncio.run then cancels the tasks that
\* are left and closes the loop.
asyncio_run_exit ==
    /\ caller = "main"
    /\ loop = "running"
    /\ pc \in {"returned", "raised"}
    /\ stdout' = IF pc = "returned" THEN Append(stdout, returned.text) ELSE stdout
    /\ tasks' = [i \in 1..Len(tasks) |-> task_cancel(tasks[i])]
    /\ loop' = "closed"
    /\ UNCHANGED <<params, env, lists, pc, time_str, region, argv, models, response,
                   next_m, gather, overtaken, uploads, returned, raised>>

Next ==
    \/ run_enter
    \/ run_dispatch
    \/ run_gather
    \/ \E i \in 1..Len(tasks) : task_start(i)
    \/ \E i \in 1..Len(tasks), o \in RunnerOutcomes : task_settle(i, o)
    \/ run_join
    \/ \E ok \in BOOLEAN : run_stored(ok)
    \/ asyncio_run_exit

Spec == Init /\ [][Next]_vars

\* ------------------------------------------------- _get_models alone
\* The filters _get_models is called with on its own.
RosterFilters ==
    Filters \cup {"gpt", "claude", "llama", "Llama", "70b", "turbo", "vision",
                  "pro", "-"}

\* The variables a call of one function alone leaves at rest.
at_rest ==
    /\ caller = "webapp"
    /\ store = FALSE
    /\ pass_argv = NoneList
    /\ call_kwargs = <<>>
    /\ kwargs = <<>>
    /\ FLY_REGION = None
    /\ heap = <<>> /\ handed = <<>>
    /\ now = [date |-> "2024-04-20", time |-> "23:59:58.000001"]
    /\ time_str = <<>> /\ region = None /\ argv = <<>>
    /\ tasks = <<>> /\ next_m = 0
    /\ gather = Nil
    /\ overtaken = FALSE
    /\ uploads = <<>>
    /\ raised = Nil
    /\ loop = "running"
    /\ stdout = <<>>

InitRoster ==
    /\ mode \in DOMAIN mode_map
    /\ filter \in RosterFilters
    /\ format = "text"
    /\ display_length = DEFAULT_DISPLAY_LENGTH
    /\ pc = "get_models"
    /\ models = <<>>
    /\ response = Nil
    /\ returned = Nil
    /\ at_rest

\* models = _get_models(mode, filter)
get_models_call ==
    /\ pc = "get_models"
    /\ models' = _get_models(mode, filter)
    /\ pc' = "got_models"
    /\ UNCHANGED <<params, env, lists, time_str, region, argv, tasks, response, next_m,
                   gather, overtaken, uploads, returned, raised, loop, stdout>>

NextRoster == get_models_call

SpecRoster == InitRoster /\ [][NextRoster]_vars

\* ------------------------------------------ run() while time passes
\* The most clock readings that differ during one run.
MaxTicks == 2

\* What datetime.datetime.now() gives as time passes; midnight passes.
Clock ==
    << [date |-> "2024-04-20", time |-> "23:59:58.000001"],
       [date |-> "2024-04-20", time |-> "23:59:59.500000"],
       [date |-> "2024-04-21", time |-> "00:00:01.250000"],
       [date |-> "2024-04-21", time |-> "00:00:03.000000"],
       [date |-> "2024-04-22", time |-> "00:00:00.000000"] >>

\* The values FLY_REGION takes in os.environ; None: not set.
Regions == {None, "iad", "lhr"}

\* Time passes: datetime.datetime.now() gives the next reading.
clock_tick ==
    /\ \E k \in 1..MaxTicks :
          /\ k < Len(Clock)
          /\ now = Clock[k]
          /\ now' = Clock[k + 1]
    /\ UNCHANGED <<params, FLY_REGION, lists, pc, locals, gather, overtaken, uploads,
                   returned, raised, loop, stdout>>

\* os.environ["FLY_REGION"] is set, changed or removed by the process.
environ_change(v) ==
    /\ v # FLY_REGION
    /\ FLY_REGION' = v
    /\ UNCHANGED <<params, now, lists, pc, locals, gather, overtaken, uploads,
                   returned, raised, loop, stdout>>

\* Runs over the one-entry and the three-entry rosters.
InitClock ==
    /\ Init
    /\ mode \in {"audio", "text"}
    /\ filter \in {None, "mixtral-8x7b-instruct"}
    /\ format = "json"
    /\ kwargs = <<>>

NextClock ==
    \/ Next
    \/ clock_tick
    \/ \E v \in Regions : environ_change(v)

SpecClock == InitClock /\ [][NextClock]_vars

\* ------------------------------------------- run() with lists mutated
\* The token a mutation by who appends to a list.
mutated_by(who) == <<"mutated by", who>>

\* The Runner call of task i changes the argument list it was given.
runner_mutates_argv(i) ==
    /\ loop = "running"
    /\ tasks[i].status = "running"
    /\ \A k \in 1..Len(heap[handed[i]]) : heap[handed[i]][k] # mutated_by(i)
    /\ heap' = [heap EXCEPT ![handed[i]] = Append(@, mutated_by(i))]
    /\ UNCHANGED <<params, env, handed, pc, locals, gather, overtaken, uploads,
                   returned, raised, loop, stdout>>

\* The caller changes the list it passed as pass_argv, while run() is
\* suspended or over.
caller_mutates_pass_argv ==
    /\ pass_argv # NoneList
    /\ pc \notin {"call", "dispatch"}
    /\ \A k \in 1..Len(heap[1]) : heap[1][k] # mutated_by(0)
    /\ heap' = [heap EXCEPT ![1] = Append(@, mutated_by(0))]
    /\ UNCHANGED <<params, env, handed, pc, locals, gather, overtaken, uploads,
                   returned, raised, loop, stdout>>

\* Runs over the three-entry roster, with and without a pass-through list.
InitAlias ==
    /\ Init
    /\ mode = "text"
    /\ filter = "mixtral-8x7b-instruct"
    /\ format = "json"
    /\ FLY_REGION = None

NextAlias ==
    \/ Next
    \/ \E i \in 1..Len(tasks) : runner_mutates_argv(i)
    \/ caller_mutates_pass_argv

SpecAlias == InitAlias /\ [][NextAlias]_vars

\* --------------------------------------------- _format_response alone
\* The longest output text and the widest display length drawn.
MaxOutputLen == 4
MaxWidth == 5

\* The characters of the output texts drawn: a letter, the two characters
\* of the escape, the newline and the space.
OutputChars == {"a", "n", "\\", "\n", " "}

Outputs == UNION {[1..n -> OutputChars] : n \in 0..MaxOutputLen}

\* The output "line1\nline2", shown at width 10.
ExampleOutput == <<"l", "i", "n", "e", "1", "\n", "l", "i", "n", "e", "2">>
ExampleWidth == 10

\* A result dict with the output text o.
result_with(o) ==
    [model |-> "gpt-4-turbo", ttr |-> 10, ttft |-> 20, tps |-> 10000,
     num_tokens |-> 50, total_time |-> 125, output |-> o]

InitFormat ==
    /\ mode = "text"
    /\ filter = None
    /\ format = "text"
    /\ display_length \in (0..MaxWidth) \cup {ExampleWidth}
    /\ \E o \in Outputs :
          response = [time |-> isoformat(Clock[1]), region |-> "local",
                      cmd |-> <<>>,
                      results |-> <<result_with(o), result_with(ExampleOutput)>>]
    /\ pc = "format"
    /\ models = <<>>
    /\ returned = Nil
    /\ at_rest

\* _format_response(response, format, display_length)
format_response_call ==
    /\ pc = "format"
    /\ returned' = _format_response(response, format, display_length)
    /\ pc' = "formatted"
    /\ UNCHANGED <<params, env, lists, time_str, region, argv, models, tasks,
                   response, next_m, gather, overtaken, uploads, raised, loop,
                   stdout>>

NextFormat == format_response_call

SpecFormat == InitFormat /\ [][NextFormat]_vars

\* ============================================================ claims
\* run() is over: it returned or raised.
run_over == pc \in {"returned", "raised"}

\* _get_models for every valid mode and every filter explored.
built_rosters ==
    [m \in DOMAIN mode_map, f \in Filters |-> _get_models(m, f)]

\* The roster entries as _get_models built them, before run() touched them.
roster == IF UnknownMode(mode) THEN <<>> ELSE built_rosters[mode, filter]

\* The k-th smallest element of the set S of numbers.
nth(S, k) == CHOOSE x \in S : Cardinality({y \in S : y < x}) = k - 1

\* The indices of the tasks that ended with a result that is not None.
present == {i \in 1..Len(tasks) :
               tasks[i].status = "done" /\ tasks[i].result # NoneResult}

\* C1: whichever invocations fail, by raising or by yielding None, run()
\* returns a report: a Runner's exception is never what run() raises.
C1_FailureNotPropagated ==
    raised = Nil \/ raised.type # "RunnerError"

\* C2: the report's results are exactly the outcomes that are present, in
\* roster order whatever the order of completion: the k-th result is the
\* result of the k-th task, by roster position, that has one; None outcomes
\* leave no entry; there are no more results than roster entries.
C2_ResultsInRosterOrder ==
    response # Nil =>
        /\ Len(response.results) = Cardinality(present)
        /\ \A k \in 1..Len(response.results) :
              /\ response.results[k] = tasks[nth(present, k)].result
              /\ response.results[k] # NoneResult
        /\ Len(response.results) <= Len(roster)

\* C2 witness: a report of two results or more, one outcome absent, and the
\* tasks did not settle in roster order.
C2_Witness ==
    /\ response # Nil
    /\ Len(response.results) >= 2
    /\ Len(response.results) < Len(tasks)
    /\ overtaken

\* C3: run() never goes past the join (to assemble, store, return or raise)
\* while a task it launched is not settled.
C3_JoinWaitsForAll ==
    pc \in {"storing", "returned", "raised"} =>
        \A i \in 1..Len(tasks) : task_done(tasks[i])

\* C4: an invocation's failure never aborts a sibling: no launched task is
\* ever cancelled.
C4_NoSiblingAborted ==
    \A i \in 1..Len(tasks) : tasks[i].status # "cancelled"

\* C5: every roster entry's Runner call is initiated before run() waits on
\* any: no task runs while the loop still launches, and once run() waits (or
\* any task has run) there is one task per roster entry, without a cap.
C5_AllStartedBeforeWaiting ==
    /\ pc = "dispatch" =>
          \A i \in 1..Len(tasks) : tasks[i].status = "scheduled"
    /\ (pc \in {"join", "storing", "returned"}
          \/ \E i \in 1..Len(tasks) : tasks[i].status # "scheduled") =>
          Len(tasks) = Len(roster)

\* C5 witness: run() waits on the gather with MaxRoster tasks launched and
\* none of them run yet.
C5_Witness ==
    /\ pc = "join"
    /\ Len(tasks) = MaxRoster
    /\ \A i \in 1..Len(tasks) : tasks[i].status = "scheduled"

\* C6: a target's own api_key and base_url win over a shared option of the
\* same name: the flag the Runner gets carries the target's value.
C6_TargetWinsOverShared ==
    \A i \in 1..Len(tasks) : \A k \in {"api_key", "base_url"} :
        (k \in dict_keys(roster[i].args) /\ k \in dict_keys(kwargs)) =>
            \A j \in 1..Len(tasks[i].argv) :
                (Len(tasks[i].argv[j]) = 4
                    /\ tasks[i].argv[j][2] = str_replace(k, "_", "-")) =>
                    tasks[i].argv[j][4] = str_format(dict_get(roster[i].args, k))

\* C7: the pass-through tokens are the tail of every invocation's argument
\* list, unchanged and in order, after all the flags made from the target's
\* parameters and the shared options (one flag per parameter name).
C7_PassThroughLast ==
    \A i \in 1..Len(tasks) :
        LET a == tasks[i].argv
            p == or_empty(pass_argv)
            names == dict_keys(roster[i].args) \cup dict_keys(kwargs)
            flags == {str_replace(k, "_", "-") : k \in names}
            n == Cardinality(names)
        IN  /\ Len(a) = n + Len(p)
            /\ SubSeq(a, n + 1, Len(a)) = p
            /\ \A j \in 1..n :
                  /\ Len(a[j]) = 4
                  /\ a[j][1] = "--"
                  /\ a[j][2] \in flags

\* C7 witness: an invocation launched with pass-through tokens and shared
\* options.
C7_Witness ==
    /\ Len(tasks) >= 1
    /\ or_empty(pass_argv) # <<>>
    /\ kwargs # <<>>

\* C8: with an unknown mode run() raises the unknown-mode error before any
\* dispatch: no task, no upload, no report, nothing returned.
C8_UnknownModeFailsFirst ==
    (UnknownMode(mode) /\ pc # "call") =>
        /\ pc = "raised"
        /\ raised # Nil
        /\ raised.type = "ValueError"
        /\ tasks = <<>>
        /\ uploads = <<>>
        /\ response = Nil
        /\ returned = Nil

\* C8 witness: run() was called with an unknown mode and has raised.
C8_Witness == UnknownMode(mode) /\ pc = "raised"

\* C9: a failing Blob Store write is not raised to the caller of run().
C9_StoreFailureNotRaised ==
    raised = Nil \/ raised.type # "UploadError"

\* C10: in a run with a valid mode that is over, the Blob Store was invoked
\* exactly once if store was requested and never otherwise, and what it got
\* is the JSON rendering of the report.
C10_StoredExactlyOnce ==
    (run_over /\ ~UnknownMode(mode)) =>
        /\ Len(uploads) = (IF store THEN 1 ELSE 0)
        /\ \A u \in 1..Len(uploads) :
              /\ uploads[u].content_type = "application/json"
              /\ uploads[u].text = [json |-> response]

\* sub occurs in s: s is some text, then sub, then some text.
is_substring(sub, s) ==
    \E i \in 1..(Len(Chars[s]) + 1) : \E j \in (i - 1)..Len(Chars[s]) :
        SubSeq(Chars[s], i, j) = Chars[sub]

\* The positions of the mode's static roster that the filter keeps.
kept_positions ==
    {i \in 1..Len(mode_map[mode]) :
        filter = None
           \/ is_substring(filter, dict_get(mode_map[mode][i].args, "model"))}

\* C11: for a valid mode, _get_models returns the mode's static roster
\* restricted to exactly the entries whose model contains the filter as a
\* case-sensitive substring, in their original order; an absent or empty
\* filter keeps every entry.  (The result is a function of mode and filter
\* alone, so two calls with the same arguments give the same entries.)
C11_RosterIsFilteredStaticRoster ==
    pc = "got_models" =>
        /\ Len(models) = Cardinality(kept_positions)
        /\ \A k \in 1..Len(models) :
              models[k] = mode_map[mode][nth(kept_positions, k)]
        /\ (filter = None \/ filter = "") => models = mode_map[mode]

\* C11 witness: a filter that occurs inside a model identifier, not at its
\* start, keeps some entries of the text roster and drops others.
C11_Witness ==
    /\ pc = "got_models"
    /\ mode = "text"
    /\ filter = "mixtral-8x7b-instruct"
    /\ Len(models) = 3
    /\ dict_get(models[1].args, "model")
          = "accounts/fireworks/models/mixtral-8x7b-instruct"

\* C12: a run (valid mode) in which no invocation succeeded, the roster
\* being empty or every invocation having failed or yielded None, ends by
\* returning a report with empty results, not by raising.
C12_ZeroSuccessReturnsEmptyReport ==
    (/\ run_over
     /\ ~UnknownMode(mode)
     /\ \A i \in 1..Len(tasks) : task_done(tasks[i])
     /\ present = {}) =>
        /\ pc = "returned"
        /\ response # Nil
        /\ response.results = <<>>

\* C13: the timestamp and the region are read once, when run() starts and
\* before any invocation is dispatched, and are never read again: from then
\* on the captured values do not change, the report carries them, and the
\* report is stored under <region>/<mode>/<date>.json with the date part of
\* that same timestamp, however the clock and FLY_REGION move meanwhile.
C13_CapturedOnceAtStart ==
    /\ [](/\ pc = "call" => tasks = <<>>
          /\ response # Nil =>
                /\ response.time = time_str
                /\ response.region = region
          /\ \A u \in 1..Len(uploads) :
                /\ uploads[u].key =
                      <<region, "/", mode, "/">> \o split_T_0(time_str)
                          \o <<".json">>
                /\ uploads[u].text.json.time = time_str
                /\ uploads[u].text.json.region = region
          /\ returned # Nil =>
                /\ returned.text.json.time = time_str
                /\ returned.text.json.region = region)
    /\ [][/\ (pc = "call" /\ pc' # "call") =>
                /\ time_str' = isoformat(now)
                /\ region' = os_getenv(FLY_REGION, "local")
          /\ pc # "call" => (time_str' = time_str /\ region' = region)]_vars

\* A stored three-entry run during which midnight passed and FLY_REGION
\* changed after the capture.
C13_Witness ==
    /\ pc = "returned"
    /\ Len(uploads) = 1
    /\ Len(tasks) = 3
    /\ \E i \in 1..Len(tasks) : tasks[i].status = "done"
    /\ time_str = isoformat(Clock[1])
    /\ now.date # Clock[1].date
    /\ os_getenv(FLY_REGION, "local") # region
    /\ uploads[1].key = <<region, "/", mode, "/", "2024-04-20", ".json">>

\* C14: _Llm.apply leaves the roster entry as it was: after the call the
\* entry's parameter mapping and pass-through list are what they were
\* before it.
C14_ApplyLeavesEntryUnchanged ==
    \A i \in 1..Len(models) :
        /\ models[i].args = roster[i].args
        /\ models[i].pass_argv = roster[i].pass_argv

\* C14 as amended: _Llm.apply updates the entry in place.  An entry not yet
\* resolved is as built; a resolved one has the pass-through list given to
\* apply, every shared option among its parameters, its own parameters that
\* no shared option names with their values, in their order and first, and
\* it is what the invocation's argument list is made from.
C14_ApplyUpdatesEntryInPlace ==
    \A i \in 1..Len(models) :
        IF i >= next_m
        THEN models[i] = roster[i]
        ELSE LET before == roster[i].args
                 after == models[i].args
             IN  /\ models[i].pass_argv = or_empty(pass_argv)
                 /\ dict_keys(after) = dict_keys(before) \cup dict_keys(kwargs)
                 /\ Len(after) = Cardinality(dict_keys(after))
                 /\ \A j \in 1..Len(before) :
                       /\ after[j][1] = before[j][1]
                       /\ before[j][1] \notin dict_keys(kwargs) =>
                             after[j] = before[j]
                 /\ tasks[i].argv = full_argv(models[i])

\* A resolved entry that got a parameter it did not have and a pass-through
\* list, while a later entry is still as built.
C14_Witness ==
    /\ pc = "dispatch"
    /\ next_m = 2 /\ Len(models) = 3
    /\ "max_tokens" \in dict_keys(models[1].args) \ dict_keys(roster[1].args)
    /\ models[1].pass_argv = PassArgv
    /\ roster[1].pass_argv = <<>>
    /\ models[3] = roster[3]

\* C15: in a run that reaches dispatch the Runner is called once for each
\* entry of the filtered roster, never more and, once the loop is through,
\* never less: the i-th call is the one for the i-th entry and there are
\* as many calls as entries.
C15_OneInvocationPerEntry ==
    (pc # "call" /\ ~UnknownMode(mode)) =>
        /\ Len(models) = Len(roster)
        /\ Len(tasks) = IF pc = "dispatch" THEN next_m - 1 ELSE Len(roster)
        /\ \A i \in 1..Len(tasks) :
              /\ i <= Len(roster)
              /\ tasks[i].argv[1] =
                    <<"--", "model", "=", dict_get(roster[i].args, "model")>>

\* A three-entry run that returned with every invocation settled.
C15_Witness ==
    /\ pc = "returned"
    /\ Len(roster) = 3
    /\ \A i \in 1..Len(tasks) : tasks[i].status = "done"
    /\ Len(response.results) = 3

\* C16: no list is shared between invocations.  Each Runner call is given a
\* list object of its own, which is neither another call's nor the caller's
\* pass-through list, so what a call finds in its list is what it was
\* handed plus at most its own change: never the change of another call
\* or of the caller.
C16_ArgvOwnedByInvocation ==
    /\ Len(handed) = Len(tasks)
    /\ \A i \in 1..Len(handed) :
          /\ handed[i] \in 1..Len(heap)
          /\ \A j \in 1..Len(handed) : j # i => handed[j] # handed[i]
          /\ pass_argv # NoneList => handed[i] # 1
          /\ heap[handed[i]] \in
                {tasks[i].argv, Append(tasks[i].argv, mutated_by(i))}

\* Two invocations in flight, the first having changed its list and the
\* caller its own, and the second finding its list as handed.
C16_Witness ==
    /\ pc = "join"
    /\ Len(tasks) = 3
    /\ tasks[1].status = "running" /\ tasks[2].status = "running"
    /\ or_empty(pass_argv) # <<>>
    /\ heap[handed[1]] = Append(tasks[1].argv, mutated_by(1))
    /\ heap[1] = Append(pass_argv, mutated_by(0))
    /\ heap[handed[2]] = tasks[2].argv

\* What strip() removes at the ends once every newline is escaped.
Blanks == {" ", "\t", "\r"}

\* o without the blanks at its ends.
core(o) ==
    LET keep == {i \in 1..Len(o) : o[i] \notin Blanks}
    IN  IF keep = {} THEN <<>>
        ELSE SubSeq(o, nth(keep, 1), nth(keep, Cardinality(keep)))

\* The length of cs with each newline written as two characters.
escaped_len(cs) == Len(cs) + Cardinality({i \in 1..Len(cs) : cs[i] = "\n"})

\* The p-th character of cs with each newline written as backslash, n.
escaped_at(cs, p) ==
    LET first(i) == i + Cardinality({j \in 1..(i - 1) : cs[j] = "\n"})
        i == CHOOSE i \in 1..Len(cs) :
                 first(i) = p \/ (cs[i] = "\n" /\ first(i) + 1 = p)
    IN  IF cs[i] # "\n" THEN cs[i]
        ELSE IF first(i) = p THEN "\\" ELSE "n"

\* C17: in the table, for every result and every display width, the
\* Output field is exactly display_length characters and holds no raw
\* newline: each newline of the output is written as backslash, n before
\* the text is cut, a longer text is cut to the width and a shorter one is
\* filled with spaces.
C17_OutputFieldEscapedAndFixedWidth ==
    pc = "formatted" =>
        /\ Len(returned.text.rows) = Len(response.results)
        /\ \A i \in 1..Len(response.results) :
              LET o == core(response.results[i].output)
                  f == returned.text.rows[i].output
              IN  /\ Len(f) = display_length
                  /\ \A k \in 1..Len(f) :
                        /\ f[k] # "\n"
                        /\ f[k] = IF k <= escaped_len(o)
                                  THEN escaped_at(o, k) ELSE " "

\* The example at width 10, beside a shorter text with two newlines.
C17_Witness ==
    /\ pc = "formatted"
    /\ display_length = ExampleWidth
    /\ returned.text.rows[2].output =
          <<"l", "i", "n", "e", "1", "\\", "n", "l", "i", "n">>
    /\ response.results[1].output = <<"a", "\n", "\n", "a">>
    /\ returned.text.rows[1].output =
          <<"a", "\\", "n", "\\", "n", "a", " ", " ", " ", " ">>

\* C18: every invocation run() dispatches carries format = "none": the
\* entry is built with format last in its mapping, the resolved mapping
\* still has format = "none" whatever the shared options and the keyword
\* arguments of the call were, and the flags made from it hold --format=none
\* once and no other format.
C18_FormatSentinelKept ==
    /\ \A i \in 1..Len(roster) :
          roster[i].args[Len(roster[i].args)] = <<"format", "none">>
    /\ "format" \notin dict_keys(kwargs)
    /\ \A i \in 1..Len(tasks) :
          LET flags == {j \in 1..Len(tasks[i].argv) :
                           /\ Len(tasks[i].argv[j]) = 4
                           /\ tasks[i].argv[j][2] = "format"}
          IN  /\ dict_get(models[i].args, "format") = "none"
              /\ Cardinality(flags) = 1
              /\ \A j \in flags : tasks[i].argv[j] = <<"--", "format", "=", "none">>

\* A call with format = "json" among its keyword arguments beside shared
\* options, all its invocations dispatched.
C18_Witness ==
    /\ "format" \in dict_keys(call_kwargs)
    /\ format = "json"
    /\ dict_keys(kwargs) = {"max_tokens", "api_key", "base_url"}
    /\ Len(tasks) = 3
    /\ pc = "join"

====
